---- MODULE Spec2Model ----
(***************************************************************************)
(* Lease Abstractor (src/index.tsx, the App component at line 622).        *)
(*                                                                         *)
(* The component's React state and its ref, the event handlers             *)
(* handleFileChange, handleRemoveFile, Clear All, handleGenerateAbstract   *)
(* and handleAskQuestion.  An async handler runs synchronously up to its   *)
(* next await; every await (extractTextFromPdf, generateContent) is one    *)
(* suspension point, and the code between two awaits is one action.        *)
(* Every invocation of an async handler is its own continuation: runs and  *)
(* turns are sequences holding one record of locals per invocation.        *)
(***************************************************************************)
EXTENDS Integers, Sequences, FiniteSets, TLC

-----------------------------------------------------------------------------
(* Bounds of the model *)

\* User operations (a FileList handed over, a file removed, Clear All,
\* Generate Abstract, a text submitted as a question) and responses of the backend to
\* an extraction request that are valid JSON of another shape than asked for
\* or an empty text the clause loop survives, in one behaviour
MaxEvents == 3

-----------------------------------------------------------------------------
(* Values *)

NULL == [null |-> TRUE]

PDF == "application/pdf"
FileTypes == {PDF, "text/plain"}
\* A file name is its rank in localeCompare order
OriginalLease == [name |-> 2, type |-> PDF]
FirstAmendment == [name |-> 1, type |-> PDF]
Spreadsheet == [name |-> 3, type |-> "text/plain"]

\* leaseAbstractSchema.properties, in declaration order (Object.entries)
SectionKeys ==
  << "generalInformation", "leaseAmendmentsReviewed", "leaseTermAndDates",
     "noticeAddresses", "billingAndCharges", "leaseNotes",
     "maintenanceAndReimbursement", "tenantInsuranceInformation" >>

\* leaseAbstractSchema.properties.leaseNotes.properties, in declaration order
NoteKeys ==
  << "securityDeposit", "prepaidRent", "primaryUse", "radiusRestrictions",
     "exclusiveUse", "cotenancyRequirements", "acceptableReplacementCotenancy",
     "landlordKickout", "tenantKickout", "tenantGoDark", "landlordRestrictions",
     "assignmentAndSubletting", "shoppingCenterAlterations", "operatingCovenant",
     "lateChargesNSFFee", "defaultClause", "guaranty", "purchaseOptionROFR",
     "marketingOrPromotionalFee", "holdoverTerms", "signage", "estoppel",
     "eminentDomainAndSubordination", "damageOrDestruction", "relocationRight",
     "utilitiesHVACTrash", "repairsMaintenanceReplacements",
     "tenantImprovementAllowance", "constructionManagementFees",
     "landlordMaintenance", "brokersAndAgents", "financialReporting", "parking",
     "landlordWorkAndDelivery", "tenantPlanSubmission", "camTaxesInsurance",
     "tenantDirectBill", "Other" >>

Range(s) == { s[i] : i \in 1..Len(s) }

\* toTitleCase: a space before every capital, the first character upper-cased.
\* It is injective on keys without spaces; the label is the key under that
\* conversion.
toTitleCase(str) == [title |-> str]

\* An extraction unit: a section, or one clause of leaseNotes (note # "")
Unit(sectionKey, noteKey) == [section |-> sectionKey, note |-> noteKey]

-----------------------------------------------------------------------------
(* Text acquired from the documents *)

\* pdf.numPages of the document behind a file: an input of the model
NumPages(file) == IF file.name = 1 THEN 2 ELSE 1

PageText(file, i) == [t |-> "page", doc |-> file.name, page |-> i]
PageBreak == [t |-> "\n\n"]
DocumentBoundary == [t |-> "\n\n--- END OF DOCUMENT ---\n\n"]

\* The string extractTextFromPdf resolves with: every page's text, each
\* followed by '\n\n', in page order.
RECURSIVE PagesText(_, _)
PagesText(file, i) ==
  IF i > NumPages(file) THEN << >>
  ELSE << PageText(file, i), PageBreak >> \o PagesText(file, i + 1)

extractTextFromPdf(file) == PagesText(file, 1)

\* Mutant: the marker after every document
RECURSIVE JoinTrailing(_)
JoinTrailing(texts) ==
  IF Len(texts) = 0 THEN << >>
  ELSE texts[1] \o << DocumentBoundary >> \o JoinTrailing(Tail(texts))

\* leaseTexts.join('\n\n--- END OF DOCUMENT ---\n\n')
RECURSIVE Join(_)
Join(texts) ==
  IF Len(texts) = 0 THEN << >>
  ELSE IF Len(texts) = 1 THEN texts[1]
  ELSE texts[1] \o << DocumentBoundary >> \o Join(Tail(texts))

\* The names of the documents of a text, in the order of their first page
DocsOf(text) ==
  LET RECURSIVE Walk(_)
      Walk(i) ==
        IF i > Len(text) THEN << >>
        ELSE IF text[i].t = "page" /\ text[i].page = 1
             THEN << text[i].doc >> \o Walk(i + 1)
             ELSE Walk(i + 1)
  IN Walk(1)

-----------------------------------------------------------------------------
(* Selection of files *)

\* a.name.localeCompare(b.name) <= 0, names being ranks in that order
NameLeq(a, b) == a.name <= b.name

\* Array.prototype.sort with the comparator of handleFileChange: stable
RECURSIVE Insert(_, _)
Insert(sorted, f) ==
  IF Len(sorted) = 0 THEN << f >>
  ELSE IF NameLeq(sorted[Len(sorted)], f) THEN Append(sorted, f)
  ELSE Append(Insert(SubSeq(sorted, 1, Len(sorted) - 1), f), sorted[Len(sorted)])

RECURSIVE SortByName(_)
SortByName(files) ==
  IF Len(files) = 0 THEN << >>
  ELSE Insert(SortByName(SubSeq(files, 1, Len(files) - 1)), files[Len(files)])

RemoveAt(s, index) ==
  [ i \in 1..(Len(s) - 1) |-> IF i < index THEN s[i] ELSE s[i + 1] ]

\* The FileLists a user hands over: one document, two files of one name, a
\* file that is no PDF, alone and next to a PDF
Batches ==
  { << OriginalLease >>, << FirstAmendment >>,
    << FirstAmendment, FirstAmendment >>,
    << Spreadsheet >>, << Spreadsheet, OriginalLease >> }

-----------------------------------------------------------------------------
(* Objects and the backend's responses *)

EmptyObject == [k \in {} |-> NULL]

\* Object.assign(target, source) on the own enumerable properties of source
ObjectAssign(target, props) ==
  [ k \in (DOMAIN target) \cup (DOMAIN props) |->
      IF k \in DOMAIN props THEN props[k] ELSE target[k] ]

\* A parsed JSON value and the own enumerable properties Object.assign
\* copies from it: an object's properties, an array's indices, nothing for a
\* number
JsonObject(key, value) == [t |-> "object", props |-> [k \in {key} |-> value]]
JsonArray(value) == [t |-> "array", props |-> [k \in {"0"} |-> value]]
JsonNumber == [t |-> "number", props |-> EmptyObject]
OwnProps(json) == json.props

\* response.text: undefined, whitespace only, text that is no JSON, or the
\* text of a JSON value
TextMissing == [kind |-> "undefined"]
TextBlank == [kind |-> "blank"]
TextGarbage == [kind |-> "garbage"]
TextOf(json) == [kind |-> "json", value |-> json]

\* Mutant: the test without the trim
IsEmptyTextUntrimmed(text) == text.kind = "undefined"

\* !response.text || response.text.trim() === ''
IsEmptyText(text) == text.kind \in {"undefined", "blank"}

\* Mutant: the parse error is swallowed and nothing is merged
JSONparseSwallowing(text) ==
  [ok |-> TRUE, value |-> IF text.kind = "json" THEN text.value ELSE JsonNumber]

\* JSON.parse: throws on text that is no JSON
JSONparse(text) ==
  IF text.kind = "json" THEN [ok |-> TRUE, value |-> text.value]
  ELSE [ok |-> FALSE]

\* What the backend extracted for a unit in a run
UnitKey(unit) == IF unit.note = "" THEN unit.section ELSE unit.note

Data(r, unit) == [run |-> r, key |-> UnitKey(unit)]

\* the object the response schema of a unit asks for
Nominal(r, unit) == TextOf(JsonObject(UnitKey(unit), Data(r, unit)))

\* texts that end the run or are the object asked for
PlainTexts(r, unit) ==
  { Nominal(r, unit), TextGarbage }
    \cup (IF unit.note = "" THEN {TextMissing, TextBlank} ELSE {})

\* valid JSON of another shape: an object under the key of the last section
\* (which also is no clause key), and for a section also an array and a
\* number; and the empty texts a clause request survives
OddTexts(r, unit) ==
  { TextOf(JsonObject(SectionKeys[Len(SectionKeys)], Data(r, unit))) }
    \cup (IF unit.note = ""
          THEN { TextOf(JsonArray(Data(r, unit))), TextOf(JsonNumber) }
          ELSE { TextMissing, TextBlank })

-----------------------------------------------------------------------------
(* Messages shown to the user *)

NonPdfNotice == [msg |-> "Only PDF files are accepted. Non-PDF files have been ignored."]
NoDocumentsNotice == [msg |-> "Please upload one or more lease documents."]
ProcessFailed(file) == [msg |-> "Failed to process", file |-> file.name]
EmptyResponse(sectionKey) ==
  [msg |-> "The AI model returned an empty response for the section",
   label |-> toTitleCase(sectionKey)]
InvalidFormat(what, key) ==
  [msg |-> "The AI model returned an invalid data format for the",
   label |-> toTitleCase(key), what |-> what]
\* e.message of a rejected generateContent call
BackendRejected == [msg |-> "generateContent rejected"]
QaFailed == [msg |-> "Sorry, I couldn't answer that question. Please try again."]

NoProgress == [msg |-> ""]
\* `Processing ${progressPrefix}: ${message}`, the prefix being
\* (filesProcessed/totalFiles) when there is more than one file
Processing(filesProcessed, totalFiles, file) ==
  [msg |-> "Processing",
   prefix |-> IF totalFiles > 1 THEN << filesProcessed, totalFiles >> ELSE << >>,
   file |-> file.name]
Extracting(sectionKey) == [msg |-> "Extracting", label |-> toTitleCase(sectionKey)]
ExtractingNote(noteKey) ==
  [msg |-> "Extracting: Lease Notes", label |-> toTitleCase(noteKey)]
AnalyzingForQa == [msg |-> "Analyzing documents for Q&A..."]

-----------------------------------------------------------------------------
(* State *)

VARIABLES
  selectedFiles,    \* useState<File[]>: the selected documents
  abstractData,     \* useState: the published record, or NULL
  isLoading,        \* useState: an extraction run is active
  error,            \* useState: the notice of the input panel, or NULL
  progressMessage,  \* useState
  leaseTextCache,   \* useRef<string>: the assembled text, << >> for ''
  userQuestion,     \* useState: the text of the question box
  chatHistory,      \* useState: the transcript
  isAnswering,      \* useState: a Q&A turn is active
  qaError,          \* useState: the notice of the Q&A panel, or NULL
  runs,             \* the invocations of handleGenerateAbstract
  turns,            \* the invocations of handleAskQuestion
  inputOrder,       \* history: the selected names in the order supplied
  events,           \* history: the events MaxEvents counts
  pdf               \* the locals of extractTextFromPdf for one document

vars ==
  << selectedFiles, abstractData, isLoading, error, progressMessage,
     leaseTextCache, userQuestion, chatHistory, isAnswering, qaError,
     runs, turns, inputOrder, events, pdf >>

uiVars == << selectedFiles, abstractData, isLoading, error, progressMessage >>
qaVars == << userQuestion, chatHistory, isAnswering, qaError >>
fileVars == << selectedFiles, inputOrder >>

\* The locals of a finished invocation
DoneRun == [pc |-> "done"]
DoneTurn == [pc |-> "done"]

\* The state of the component when it is mounted
Mounted ==
  /\ selectedFiles = << >>
  /\ abstractData = NULL
  /\ isLoading = FALSE
  /\ error = NULL
  /\ progressMessage = NoProgress
  /\ leaseTextCache = << >>
  /\ userQuestion = ""
  /\ chatHistory = << >>
  /\ isAnswering = FALSE
  /\ qaError = NULL
  /\ runs = << >>
  /\ turns = << >>
  /\ inputOrder = << >>
  /\ events = 0

\* No document is looked into page by page: extractTextFromPdf is one await
\* of the handlers, resolved or rejected
NoExtraction == [pc |-> "idle"]

Init == Mounted /\ pdf = NoExtraction

-----------------------------------------------------------------------------
(* handleFileChange, handleRemoveFile, Clear All *)

IsSelected(files, name) == \E i \in 1..Len(files) : files[i].name = name

\* Mutant: the filter without the test of the type
NewFilesAnyType(files) ==
  LET Keep(file) == ~IsSelected(selectedFiles, file.name)
  IN SelectSeq(files, Keep)

\* Array.from(files).filter(file => file.type === 'application/pdf' &&
\*   !selectedFiles.some(f => f.name === file.name))
NewFiles(files) ==
  LET Keep(file) == file.type = PDF /\ ~IsSelected(selectedFiles, file.name)
  IN SelectSeq(files, Keep)

AddSelected(prevFiles, newFiles) == SortByName(prevFiles \o newFiles)

\* Reached from the file input and from handleDrop, which no state disables
handleFileChange(files) ==
  LET newFiles == NewFiles(files)
      nonPdfFiles == \E i \in 1..Len(files) : files[i].type # PDF
  IN /\ events < MaxEvents
     /\ events' = events + 1
     /\ selectedFiles' =
          IF Len(newFiles) > 0 THEN AddSelected(selectedFiles, newFiles)
          ELSE selectedFiles
     /\ inputOrder' = inputOrder \o [i \in 1..Len(newFiles) |-> newFiles[i].name]
     /\ error' = IF nonPdfFiles THEN NonPdfNotice
                 ELSE IF Len(newFiles) > 0 THEN NULL ELSE error
     /\ UNCHANGED << abstractData, isLoading, progressMessage, leaseTextCache,
                     qaVars, runs, turns >>
     /\ UNCHANGED pdf

\* inputOrder without the entry of selectedFiles[index]: the sort is stable,
\* so the j-th file of a name in the selection is the j-th supplied of that name
ForgetInput(index) ==
  LET name == selectedFiles[index].name
      j == Cardinality({ i \in 1..index : selectedFiles[i].name = name })
      at == CHOOSE p \in 1..Len(inputOrder) :
              /\ inputOrder[p] = name
              /\ Cardinality({ q \in 1..p : inputOrder[q] = name }) = j
  IN RemoveAt(inputOrder, at)

handleRemoveFile(indexToRemove) ==
  LET newFiles == RemoveAt(selectedFiles, indexToRemove)
  IN /\ events < MaxEvents
     /\ events' = events + 1
     /\ indexToRemove \in 1..Len(selectedFiles)
     /\ selectedFiles' = newFiles
     /\ inputOrder' = ForgetInput(indexToRemove)
     /\ IF Len(newFiles) = 0
        THEN /\ abstractData' = NULL
             /\ chatHistory' = << >>
             /\ leaseTextCache' = << >>
        ELSE UNCHANGED << abstractData, chatHistory, leaseTextCache >>
     /\ UNCHANGED << isLoading, error, progressMessage, userQuestion,
                     isAnswering, qaError, runs, turns >>
     /\ UNCHANGED pdf

\* The Clear All button, rendered when files are selected
ClearAll ==
  /\ events < MaxEvents
  /\ events' = events + 1
  /\ Len(selectedFiles) > 0
  /\ selectedFiles' = << >>
  /\ inputOrder' = << >>
  /\ abstractData' = NULL
  /\ chatHistory' = << >>
  /\ leaseTextCache' = << >>
  /\ UNCHANGED << isLoading, error, progressMessage, userQuestion,
                  isAnswering, qaError, runs, turns >>
  /\ UNCHANGED pdf

-----------------------------------------------------------------------------
(* handleGenerateAbstract *)

\* What the clause loop stores for an empty response
EmptyCollection == [t |-> "array", items |-> << >>]
NotFoundClause == [leaseSectionAndPage |-> "Not Found", notes |-> "Not Found"]

\* Mutant: leaseNotes is requested as one section
IsLeaseNotesNever(s) == FALSE

IsLeaseNotes(s) == SectionKeys[s] = "leaseNotes"

\* The unit whose request a run at pc "generate" awaits
CurrentUnit(run) ==
  Unit(SectionKeys[run.sec], IF IsLeaseNotes(run.sec) THEN NoteKeys[run.note] ELSE "")

\* (reqs, the keys of the units requested so far, and supplied, the input
\* order of the documents when the run started, are history.)
\* The outcome of the code between two awaits of a run: the locals, whether
\* the run ended, the error thrown (or NULL), whether setAbstractData was
\* called with a copy of fullAbstractData, and the last progress message
Effect(run, done, err, publish, progress) ==
  [run |-> run, done |-> done, error |-> err, publish |-> publish,
   progress |-> progress]

\* Mutant: a run over several documents leaves out the first section
EnterSectionByDocuments(run, s, publish) ==
  LET from == IF s = 1 /\ Len(run.files) > 1 THEN 2 ELSE s
  IN IF from > Len(SectionKeys)
     THEN Effect(run, TRUE, NULL, publish, NoProgress)
     ELSE IF IsLeaseNotes(from)
     THEN Effect([run EXCEPT !.sec = from, !.note = 1, !.notes = EmptyObject,
                             !.reqs = Append(@, NoteKeys[1])],
                 FALSE, NULL, publish, ExtractingNote(NoteKeys[1]))
     ELSE Effect([run EXCEPT !.sec = from, !.note = 0,
                             !.reqs = Append(@, SectionKeys[from])],
                 FALSE, NULL, publish, Extracting(SectionKeys[from]))

\* The body of `for (const [sectionKey, sectionSchemaDef] of sections)` up to
\* its first generateContent call, for the s-th entry; past the last entry the
\* try block ends
EnterSection(run, s, publish) ==
  IF s > Len(SectionKeys)
  THEN Effect(run, TRUE, NULL, publish, NoProgress)
  ELSE IF IsLeaseNotes(s)
  THEN Effect([run EXCEPT !.sec = s, !.note = 1, !.notes = EmptyObject,
                          !.reqs = Append(@, NoteKeys[1])],
              FALSE, NULL, publish, ExtractingNote(NoteKeys[1]))
  ELSE Effect([run EXCEPT !.sec = s, !.note = 0,
                          !.reqs = Append(@, SectionKeys[s])],
              FALSE, NULL, publish, Extracting(SectionKeys[s]))

\* Mutant: the error is reported and the run waits for the unit again
ThrowAndRetry(run, err) == Effect(run, FALSE, err, FALSE, NoProgress)

\* throw new Error(...): caught at line 1242, nothing published
Throw(run, err) == Effect(run, TRUE, err, FALSE, NoProgress)

\* Mutant: a section's response must be an object holding the section's key
SectionResponseChecksKey(run, text) ==
  LET sectionKey == SectionKeys[run.sec]
      jsonResponse == JSONparse(text)
      merged == [run EXCEPT !.full = ObjectAssign(@, OwnProps(jsonResponse.value))]
  IN IF IsEmptyText(text) THEN Throw(run, EmptyResponse(sectionKey))
     ELSE IF ~jsonResponse.ok THEN Throw(run, InvalidFormat("section", sectionKey))
     ELSE IF sectionKey \notin DOMAIN OwnProps(jsonResponse.value)
     THEN Throw(run, InvalidFormat("section", sectionKey))
     ELSE EnterSection(merged, run.sec + 1, TRUE)

\* Lines 1224-1238: the response of a section other than leaseNotes
SectionResponse(run, text) ==
  LET sectionKey == SectionKeys[run.sec]
      jsonResponse == JSONparse(text)
      merged == [run EXCEPT !.full = ObjectAssign(@, OwnProps(jsonResponse.value))]
  IN IF IsEmptyText(text) THEN Throw(run, EmptyResponse(sectionKey))
     ELSE IF ~jsonResponse.ok THEN Throw(run, InvalidFormat("section", sectionKey))
     ELSE EnterSection(merged, run.sec + 1, TRUE)

\* The end of one iteration of the clause loop: the next clause's request,
\* or lines 1200-1201 after the last clause and then the next section
NextNote(run) ==
  IF run.note < Len(NoteKeys)
  THEN Effect([run EXCEPT !.note = @ + 1,
                          !.reqs = Append(@, NoteKeys[run.note + 1])],
              FALSE, NULL, FALSE, ExtractingNote(NoteKeys[run.note + 1]))
  ELSE EnterSection(
         [run EXCEPT !.full = ObjectAssign(@, [k \in {"leaseNotes"} |-> run.notes]),
                     !.notes = EmptyObject],
         run.sec + 1, TRUE)

\* Mutant: the catch-all clause gets the placeholder of the named clauses
NoteResponseNoCatchAll(run, text) ==
  LET noteKey == NoteKeys[run.note]
      jsonResponse == JSONparse(text)
  IN IF IsEmptyText(text)
     THEN NextNote([run EXCEPT !.notes =
                       ObjectAssign(@, [k \in {noteKey} |-> NotFoundClause])])
     ELSE IF ~jsonResponse.ok THEN Throw(run, InvalidFormat("note", noteKey))
     ELSE NextNote([run EXCEPT !.notes =
                       ObjectAssign(@, OwnProps(jsonResponse.value))])

\* Lines 1177-1197: the response of one clause of leaseNotes
NoteResponse(run, text) ==
  LET noteKey == NoteKeys[run.note]
      jsonResponse == JSONparse(text)
      placeholder == IF noteKey = "Other" THEN EmptyCollection ELSE NotFoundClause
  IN IF IsEmptyText(text)
     THEN NextNote([run EXCEPT !.notes =
                       ObjectAssign(@, [k \in {noteKey} |-> placeholder])])
     ELSE IF ~jsonResponse.ok THEN Throw(run, InvalidFormat("note", noteKey))
     ELSE NextNote([run EXCEPT !.notes =
                       ObjectAssign(@, OwnProps(jsonResponse.value))])

Response(run, text) ==
  IF IsLeaseNotes(run.sec) THEN NoteResponse(run, text) ELSE SectionResponse(run, text)

\* Mutant: the finally block leaves the progress message
ApplyKeepsProgress(r, eff) ==
  /\ runs' = [runs EXCEPT ![r] = IF eff.done THEN DoneRun ELSE eff.run]
  /\ abstractData' = IF eff.publish THEN eff.run.full ELSE abstractData
  /\ error' = IF eff.error # NULL THEN eff.error ELSE error
  /\ isLoading' = IF eff.done THEN FALSE ELSE isLoading
  /\ progressMessage' = IF eff.done THEN progressMessage ELSE eff.progress

\* Mutant: the finally block runs after every await
ApplyLoadingOff(r, eff) ==
  /\ runs' = [runs EXCEPT ![r] = IF eff.done THEN DoneRun ELSE eff.run]
  /\ abstractData' = IF eff.publish THEN eff.run.full ELSE abstractData
  /\ error' = IF eff.error # NULL THEN eff.error ELSE error
  /\ isLoading' = FALSE
  /\ progressMessage' = eff.progress

\* The state after the code between two awaits of run r, with the catch and
\* finally blocks of lines 1242-1250 when the run ended
Apply(r, eff) ==
  /\ runs' = [runs EXCEPT ![r] = IF eff.done THEN DoneRun ELSE eff.run]
  /\ abstractData' = IF eff.publish THEN eff.run.full ELSE abstractData
  /\ error' = IF eff.error # NULL THEN eff.error ELSE error
  /\ isLoading' = IF eff.done THEN FALSE ELSE isLoading
  /\ progressMessage' = eff.progress

\* Mutant: the button is not disabled while a run is active
GenerateDisabledNoFiles == Len(selectedFiles) = 0

\* disabled={selectedFiles.length === 0 || isLoading} of the button
GenerateDisabled == Len(selectedFiles) = 0 \/ isLoading

\* Mutant: fullAbstractData starts from the record published before
NewRunOnPublished ==
  [pc |-> "extract", files |-> selectedFiles, i |-> 1, texts |-> << >>,
   leaseText |-> << >>,
   full |-> IF abstractData = NULL THEN EmptyObject ELSE abstractData,
   notes |-> EmptyObject,
   sec |-> 0, note |-> 0, reqs |-> << >>, supplied |-> inputOrder]

NewRun ==
  [pc |-> "extract", files |-> selectedFiles, i |-> 1, texts |-> << >>,
   leaseText |-> << >>, full |-> EmptyObject, notes |-> EmptyObject,
   sec |-> 0, note |-> 0, reqs |-> << >>, supplied |-> inputOrder]

\* Mutant: setIsLoading(true) comes before the test of the selection
handleGenerateAbstractLoadingFirst ==
  /\ events < MaxEvents
  /\ events' = events + 1
  /\ IF Len(selectedFiles) = 0
     THEN /\ error' = NoDocumentsNotice
          /\ isLoading' = TRUE
          /\ UNCHANGED << abstractData, progressMessage, runs >>
     ELSE /\ isLoading' = TRUE
          /\ error' = NULL
          /\ abstractData' = NULL
          /\ progressMessage' = Processing(1, Len(selectedFiles), selectedFiles[1])
          /\ runs' = Append(runs, NewRun)
  /\ UNCHANGED << leaseTextCache, qaVars, turns, fileVars >>
  /\ UNCHANGED pdf

\* Lines 1080-1101: up to the first await of extractTextFromPdf
handleGenerateAbstract ==
  /\ events < MaxEvents
  /\ events' = events + 1
  /\ IF Len(selectedFiles) = 0
     THEN /\ error' = NoDocumentsNotice
          /\ UNCHANGED << abstractData, isLoading, progressMessage, runs >>
     ELSE /\ isLoading' = TRUE
          /\ error' = NULL
          /\ abstractData' = NULL
          /\ progressMessage' = Processing(1, Len(selectedFiles), selectedFiles[1])
          /\ runs' = Append(runs, NewRun)
  /\ UNCHANGED << leaseTextCache, qaVars, turns, fileVars >>
  /\ UNCHANGED pdf

\* <button onClick={handleGenerateAbstract} disabled={...}>
GenerateClicked == ~GenerateDisabled /\ handleGenerateAbstract

\* extractTextFromPdf of the run's current file resolved: the next file, or
\* lines 1111-1167
RunTextAcquired(r) ==
  LET run == runs[r]
      texts == Append(run.texts, extractTextFromPdf(run.files[run.i]))
      leaseText == Join(texts)
  IN /\ run.pc = "extract"
     /\ IF run.i < Len(run.files)
        THEN /\ runs' = [runs EXCEPT ![r] = [run EXCEPT !.i = @ + 1, !.texts = texts]]
             /\ progressMessage' =
                  Processing(run.i + 1, Len(run.files), run.files[run.i + 1])
             /\ UNCHANGED << abstractData, error, isLoading, leaseTextCache >>
        ELSE /\ leaseTextCache' = leaseText
             /\ Apply(r, EnterSection([run EXCEPT !.pc = "generate", !.texts = texts,
                                                  !.leaseText = leaseText], 1, FALSE))
     /\ UNCHANGED << qaVars, turns, fileVars, events >>
     /\ UNCHANGED pdf

\* Mutant: the document that failed is left out and the next one is read
RunTextFailedSkips(r) ==
  LET run == runs[r]
  IN /\ run.pc = "extract"
     /\ run.i < Len(run.files)
     /\ runs' = [runs EXCEPT ![r] = [run EXCEPT !.i = @ + 1]]
     /\ UNCHANGED << abstractData, error, isLoading, progressMessage,
                     leaseTextCache, qaVars, turns, fileVars, events, pdf >>

\* extractTextFromPdf rejected (file read, page read, render or OCR): lines
\* 1105-1108
RunTextFailed(r) ==
  LET run == runs[r]
  IN /\ run.pc = "extract"
     /\ Apply(r, Throw(run, ProcessFailed(run.files[run.i])))
     /\ UNCHANGED << leaseTextCache, qaVars, turns, fileVars, events >>
     /\ UNCHANGED pdf

\* generateContent resolved with a response whose text is `text`
RunResponse(r, text) ==
  LET run == runs[r]
  IN /\ run.pc = "generate"
     /\ \/ /\ text \in PlainTexts(r, CurrentUnit(run))
           /\ UNCHANGED events
        \/ /\ text \in OddTexts(r, CurrentUnit(run))
           /\ events < MaxEvents
           /\ events' = events + 1
     /\ Apply(r, Response(run, text))
     /\ UNCHANGED << leaseTextCache, qaVars, turns, fileVars >>
     /\ UNCHANGED pdf

\* generateContent rejected
RunRejected(r) ==
  LET run == runs[r]
  IN /\ run.pc = "generate"
     /\ Apply(r, Throw(run, BackendRejected))
     /\ UNCHANGED << leaseTextCache, qaVars, turns, fileVars, events >>
     /\ UNCHANGED pdf

-----------------------------------------------------------------------------
(* handleAskQuestion *)

\* What the user can type: a question, or whitespace only
QuestionTexts == {"q1", "q2", " "}

\* Mutant: the question is not trimmed
TrimNothing(str) == str

\* String.prototype.trim on the texts of the model
Trim(str) == IF str = " " THEN "" ELSE str

UserMessage(content) == [role |-> "user", content |-> content]
\* response.text of the answer to a prompt
ModelMessage(prompt) == [role |-> "model", content |-> [answerTo |-> prompt.question]]

\* Mutant: the transcript is sent along
PromptWithHistory(text, question) ==
  [documents |-> text, question |-> question, history |-> chatHistory]

\* The prompt of line 1276: preamble, the cached text, the question
Prompt(text, question) == [documents |-> text, question |-> question]

\* {selectedFiles.length > 0 && !isLoading && (<div className="qa-panel">
QaPanelRendered == Len(selectedFiles) > 0 /\ ~isLoading
\* disabled={isAnswering || isLoading} of the textarea
QaInputDisabled == isAnswering \/ isLoading

\* Mutant: the prompt is built before the cache is read
AskRequestWithoutText(turn, text) ==
  [pc |-> "ask", question |-> turn.question, prompt |-> Prompt(<< >>, turn.question)]

\* Lines 1275-1281: the request of a turn, issued on the text cached then
AskRequest(turn, text) ==
  [pc |-> "ask", question |-> turn.question, prompt |-> Prompt(text, turn.question)]

\* The textarea's onChange with `value` and then lines 1253-1281 up to the
\* first await, reached by the submit button and by Enter in the textarea
handleAskQuestion(value) ==
  LET currentQuestion == value
      turn == [pc |-> "extract", files |-> selectedFiles, i |-> 1,
               texts |-> << >>, question |-> currentQuestion]
  IN /\ QaPanelRendered /\ ~QaInputDisabled
     /\ events < MaxEvents
     /\ events' = events + 1
     /\ IF Trim(value) = "" \/ isAnswering
        THEN /\ userQuestion' = value
             /\ UNCHANGED << chatHistory, isAnswering, qaError, turns,
                             progressMessage >>
        ELSE /\ isAnswering' = TRUE
             /\ qaError' = NULL
             /\ chatHistory' = Append(chatHistory, UserMessage(currentQuestion))
             /\ userQuestion' = ""
             /\ IF leaseTextCache = << >>
                THEN /\ progressMessage' = AnalyzingForQa
                     /\ turns' = Append(turns, turn)
                ELSE /\ turns' = Append(turns, AskRequest(turn, leaseTextCache))
                     /\ UNCHANGED progressMessage
     /\ UNCHANGED << selectedFiles, abstractData, isLoading, error,
                     leaseTextCache, runs, inputOrder >>
     /\ UNCHANGED pdf

\* Mutant: the question stays in the transcript
QaCatchKeepsQuestion(t) ==
  /\ qaError' = QaFailed
  /\ chatHistory' = chatHistory
  /\ isAnswering' = FALSE
  /\ turns' = [turns EXCEPT ![t] = DoneTurn]

\* Lines 1285-1292: the catch and finally blocks
QaCatch(t) ==
  LET currentQuestion == turns[t].question
      Keep(msg) == msg.role # "user" \/ msg.content # currentQuestion
  IN /\ qaError' = QaFailed
     /\ chatHistory' = SelectSeq(chatHistory, Keep)
     /\ isAnswering' = FALSE
     /\ turns' = [turns EXCEPT ![t] = DoneTurn]

\* extractTextFromPdf of the turn's current file resolved: the next file, or
\* lines 1271-1281
TurnTextAcquired(t) ==
  LET turn == turns[t]
      texts == Append(turn.texts, extractTextFromPdf(turn.files[turn.i]))
  IN /\ turn.pc = "extract"
     /\ IF turn.i < Len(turn.files)
        THEN /\ turns' = [turns EXCEPT ![t] = [turn EXCEPT !.i = @ + 1, !.texts = texts]]
             /\ UNCHANGED << leaseTextCache, progressMessage >>
        ELSE /\ leaseTextCache' = Join(texts)
             /\ progressMessage' = NoProgress
             /\ turns' = [turns EXCEPT ![t] = AskRequest(turn, Join(texts))]
     /\ UNCHANGED << selectedFiles, abstractData, isLoading, error, qaVars,
                     runs, inputOrder, events >>
     /\ UNCHANGED pdf

\* extractTextFromPdf rejected during a turn
TurnTextFailed(t) ==
  /\ turns[t].pc = "extract"
  /\ QaCatch(t)
  /\ UNCHANGED << uiVars, leaseTextCache, userQuestion, runs, inputOrder,
                  events >>
  /\ UNCHANGED pdf

\* generateContent resolved: line 1283 and the finally block
TurnResponse(t) ==
  /\ turns[t].pc = "ask"
  /\ chatHistory' = Append(chatHistory, ModelMessage(turns[t].prompt))
  /\ isAnswering' = FALSE
  /\ turns' = [turns EXCEPT ![t] = DoneTurn]
  /\ UNCHANGED << uiVars, leaseTextCache, userQuestion, qaError, runs,
                  inputOrder, events >>
  /\ UNCHANGED pdf

\* generateContent rejected
TurnRejected(t) ==
  /\ turns[t].pc = "ask"
  /\ QaCatch(t)
  /\ UNCHANGED << uiVars, leaseTextCache, userQuestion, runs, inputOrder,
                  events >>
  /\ UNCHANGED pdf

-----------------------------------------------------------------------------
(* extractTextFromPdf, page by page *)

\* Pages of a document in one behaviour
MaxPages == 2

\* The thresholds of line 1043
MinTextItems == 15
MinTextLength == 150

\* What page.getTextContent() gives for a page: textContent.items.length and
\* pageText.trim().length, on both sides of the thresholds
PageKinds == [items : {MinTextItems - 1, MinTextItems},
              length : {MinTextLength - 1, MinTextLength}]

\* The documents pdfjsLib.getDocument resolves with
Documents ==
  UNION { [1..n -> PageKinds] : n \in 0..MaxPages }

\* pageText of page i, and the text worker.recognize resolves with
NativeText(i) == [t |-> "pageText", page |-> i]
OcrText(i) == [t |-> "ocr", page |-> i]

\* Mutant: `||` in the heuristic
IsImagePageEither(page) ==
  page.items < MinTextItems \/ page.length < MinTextLength

\* textContent.items.length < 15 && pageText.trim().length < 150
IsImagePage(page) ==
  page.items < MinTextItems /\ page.length < MinTextLength

\* Lines 1015-1033: the locals when getDocument is awaited.  (ocr, the calls
\* of worker.recognize per page, created and terminated, the workers created
\* and terminated, are history.)
Reading(pages) ==
  [pc |-> "getDocument", pages |-> pages, i |-> 1, fullText |-> << >>,
   worker |-> FALSE, failed |-> FALSE,
   ocr |-> [k \in 1..Len(pages) |-> 0], created |-> 0, terminated |-> 0]

PdfInit ==
  /\ Mounted
  /\ pdf \in { Reading(pages) : pages \in Documents }

\* Mutant: no finally block
FinallySkipped(p, failed) ==
  [p EXCEPT !.pc = IF failed THEN "threw" ELSE "returned", !.failed = failed]

\* Lines 1071-1077: the finally block up to worker.terminate(), or the end
Finally(p, failed) ==
  IF p.worker
  THEN [p EXCEPT !.pc = "terminate", !.failed = failed]
  ELSE [p EXCEPT !.pc = IF failed THEN "threw" ELSE "returned", !.failed = failed]

\* The head of the page loop: the next getPage, or the end of the try block
Loop(p) ==
  IF p.i <= Len(p.pages) THEN [p EXCEPT !.pc = "getPage"] ELSE Finally(p, FALSE)

\* page.cleanup() and i++
NextPage(p, text) ==
  Loop([p EXCEPT !.fullText = @ \o << text, PageBreak >>, !.i = @ + 1])

\* Lines 1051-1062: the canvas; getContext('2d') may give null
Canvas(p, context) ==
  IF context THEN [p EXCEPT !.pc = "render"] ELSE Finally(p, TRUE)

\* the file is read and getDocument resolved
DocumentLoaded ==
  /\ pdf.pc = "getDocument"
  /\ pdf' = Loop(pdf)

\* pdf.getPage(i) resolved
PageLoaded ==
  /\ pdf.pc = "getPage"
  /\ pdf' = [pdf EXCEPT !.pc = "getTextContent"]

\* Mutant: a worker for every page that needs OCR
TextContentReadNewWorker(context) ==
  /\ pdf.pc = "getTextContent"
  /\ pdf' = IF IsImagePage(pdf.pages[pdf.i])
            THEN [pdf EXCEPT !.pc = "createWorker"]
            ELSE NextPage(pdf, NativeText(pdf.i))

\* page.getTextContent() resolved: lines 1040-1068 up to the next await
TextContentRead(context) ==
  /\ pdf.pc = "getTextContent"
  /\ pdf' = IF IsImagePage(pdf.pages[pdf.i])
            THEN IF ~pdf.worker THEN [pdf EXCEPT !.pc = "createWorker"]
                 ELSE Canvas(pdf, context)
            ELSE NextPage(pdf, NativeText(pdf.i))

\* Tesseract.createWorker() resolved
WorkerCreated(context) ==
  /\ pdf.pc = "createWorker"
  /\ pdf' = Canvas([pdf EXCEPT !.worker = TRUE, !.created = @ + 1], context)

\* page.render resolved: worker.recognize is called
Rendered ==
  /\ pdf.pc = "render"
  /\ pdf' = [pdf EXCEPT !.pc = "recognize", !.ocr[pdf.i] = @ + 1]

\* worker.recognize resolved
Recognized ==
  /\ pdf.pc = "recognize"
  /\ pdf' = NextPage(pdf, OcrText(pdf.i))

\* An awaited promise rejected: before the try block the function throws,
\* inside it the finally block runs
Rejected ==
  \/ /\ pdf.pc = "getDocument"
     /\ pdf' = [pdf EXCEPT !.pc = "threw", !.failed = TRUE]
  \/ /\ pdf.pc \in {"getPage", "getTextContent", "createWorker", "render",
                    "recognize"}
     /\ pdf' = Finally(pdf, TRUE)

\* worker.terminate() resolved: the function returns fullText or rethrows
WorkerTerminated ==
  /\ pdf.pc = "terminate"
  /\ pdf' = [pdf EXCEPT !.pc = IF pdf.failed THEN "threw" ELSE "returned",
                        !.worker = FALSE, !.terminated = @ + 1]

appVars ==
  << selectedFiles, abstractData, isLoading, error, progressMessage,
     leaseTextCache, userQuestion, chatHistory, isAnswering, qaError,
     runs, turns, inputOrder, events >>

PdfNext ==
  \/ DocumentLoaded /\ UNCHANGED appVars
  \/ PageLoaded /\ UNCHANGED appVars
  \/ \E context \in BOOLEAN : TextContentRead(context) /\ UNCHANGED appVars
  \/ \E context \in BOOLEAN : WorkerCreated(context) /\ UNCHANGED appVars
  \/ Rendered /\ UNCHANGED appVars
  \/ Recognized /\ UNCHANGED appVars
  \/ Rejected /\ UNCHANGED appVars
  \/ WorkerTerminated /\ UNCHANGED appVars

PdfSpec == PdfInit /\ [][PdfNext]_vars

-----------------------------------------------------------------------------
(* The program *)

AllTexts(r) ==
  IF runs[r].pc = "generate"
  THEN PlainTexts(r, CurrentUnit(runs[r])) \cup OddTexts(r, CurrentUnit(runs[r]))
  ELSE {}

Next ==
  \/ \E files \in Batches : handleFileChange(files)
  \/ \E index \in 1..Len(selectedFiles) : handleRemoveFile(index)
  \/ ClearAll
  \/ GenerateClicked
  \/ \E r \in 1..Len(runs) : RunTextAcquired(r)
  \/ \E r \in 1..Len(runs) : RunTextFailed(r)
  \/ \E r \in 1..Len(runs) : \E text \in AllTexts(r) : RunResponse(r, text)
  \/ \E r \in 1..Len(runs) : RunRejected(r)
  \/ \E value \in QuestionTexts : handleAskQuestion(value)
  \/ \E t \in 1..Len(turns) : TurnTextAcquired(t)
  \/ \E t \in 1..Len(turns) : TurnTextFailed(t)
  \/ \E t \in 1..Len(turns) : TurnResponse(t)
  \/ \E t \in 1..Len(turns) : TurnRejected(t)

Spec == Init /\ [][Next]_vars

-----------------------------------------------------------------------------
\* handleGenerateAbstract called while no document is selected: the button is
\* disabled then, so the call is one the rendered page does not make
InvokedWithoutDocuments == Len(selectedFiles) = 0 /\ handleGenerateAbstract

DirectNext == Next \/ InvokedWithoutDocuments

DirectSpec == Init /\ [][DirectNext]_vars

\* The page after a first upload, of the one file FirstAmendment
Uploaded ==
  /\ selectedFiles = << FirstAmendment >>
  /\ inputOrder = << FirstAmendment.name >>
  /\ abstractData = NULL
  /\ isLoading = FALSE
  /\ error = NULL
  /\ progressMessage = NoProgress
  /\ leaseTextCache = << >>
  /\ userQuestion = ""
  /\ chatHistory = << >>
  /\ isAnswering = FALSE
  /\ qaError = NULL
  /\ runs = << >>
  /\ turns = << >>
  /\ events = 0
  /\ pdf = NoExtraction

\* The behaviours that go on from there
UploadedSpec == Uploaded /\ [][Next]_vars

\* An await of some extraction run settles
RunStep ==
  \E r \in 1..Len(runs) :
    \/ RunTextAcquired(r)
    \/ RunTextFailed(r)
    \/ \E text \in AllTexts(r) : RunResponse(r, text)
    \/ RunRejected(r)

\* Every call an extraction run awaits (extractTextFromPdf, generateContent)
\* eventually resolves or rejects
FairSpec == Spec /\ WF_vars(RunStep)

(* What the claims speak of *)

\* The extraction units in schema declaration order, the clauses of
\* leaseNotes in place of leaseNotes
SchemaUnits ==
  LET RECURSIVE From(_)
      From(s) ==
        IF s > Len(SectionKeys) THEN << >>
        ELSE (IF SectionKeys[s] = "leaseNotes" THEN NoteKeys ELSE << SectionKeys[s] >>)
               \o From(s + 1)
  IN From(1)

IsPrefix(a, b) == Len(a) <= Len(b) /\ \A i \in 1..Len(a) : a[i] = b[i]

NoRepeat(s) == Cardinality(Range(s)) = Len(s)

Requesting(r) == runs[r].pc = "generate"
\* the key of the unit whose request run r awaits, and the units before it
Awaited(r) == runs[r].reqs[Len(runs[r].reqs)]
Processed(r) == { runs[r].reqs[i] : i \in 1..(Len(runs[r].reqs) - 1) }

ExtractionRequests == { r \in 1..Len(runs) : runs[r].pc = "generate" }
QaRequests == { t \in 1..Len(turns) : turns[t].pc = "ask" }

\* The keys of a published record, the clause keys in place of leaseNotes
RecordKeys(record) ==
  IF record = NULL THEN {}
  ELSE ((DOMAIN record) \ {"leaseNotes"})
         \cup (IF "leaseNotes" \in DOMAIN record THEN DOMAIN record["leaseNotes"] ELSE {})

EmptyTexts == {TextMissing, TextBlank}

-----------------------------------------------------------------------------
(* Claims *)

\* C1: the documents of the text an extraction run assembles, sends to the
\* model and caches are in the order in which the user supplied them.
C1_InputOrderKept ==
  \A r \in 1..Len(runs) :
    Requesting(r) => DocsOf(runs[r].leaseText) = runs[r].supplied

\* C2: a run requests the units in schema declaration order, the clauses of
\* leaseNotes in place of leaseNotes, one after the other, and at most one
\* extraction request is in flight.
C2_UnitsInOrderOneAtATime ==
  /\ \A r \in 1..Len(runs) :
       Requesting(r) => /\ Len(runs[r].reqs) >= 1
                        /\ IsPrefix(runs[r].reqs, SchemaUnits)
                        /\ UnitKey(CurrentUnit(runs[r])) = Awaited(r)
  /\ Cardinality(ExtractionRequests) <= 1

\* a run is past the clauses of leaseNotes and awaits the section after them
C2_Witness ==
  \E r \in 1..Len(runs) :
    /\ Requesting(r)
    /\ Awaited(r) = "maintenanceAndReimbursement"
    /\ "Other" \in Processed(r)

\* C3: while a run awaits the response of unit k+1, the published record
\* holds exactly the keys of the k units processed, whatever JSON came back.
C3_PublishedKeysAreProcessedUnits ==
  \A r \in 1..Len(runs) :
    Requesting(r) => RecordKeys(abstractData) = Processed(r)

\* C4: when a run issues the request of the next unit, the record published
\* holds what the unit just processed, a clause of leaseNotes included, merged.
C4_PublishedBeforeNextRequest ==
  [][ \A r \in 1..Len(runs) :
        ( /\ Requesting(r)
          /\ runs'[r].pc = "generate"
          /\ Len(runs'[r].reqs) = Len(runs[r].reqs) + 1
          /\ Awaited(r) \in (DOMAIN runs'[r].full) \cup (DOMAIN runs'[r].notes) )
        => Awaited(r) \in RecordKeys(abstractData') ]_vars

\* The step of run r is the handling of a response with this text
Handles(r, text) == Requesting(r) /\ RunResponse(r, text)

\* the error names the unit awaited by run r
NamesAwaited(err, r) ==
  /\ "label" \in DOMAIN err
  /\ err.label = toTitleCase(Awaited(r))

C6_EmptyCatchAllGoesOn ==
  [][ \A r \in 1..Len(runs) : \A text \in EmptyTexts :
        (Handles(r, text) /\ Awaited(r) = "Other")
        => /\ runs'[r].pc = "generate"
           /\ runs'[r].reqs = Append(runs[r].reqs, "maintenanceAndReimbursement")
           /\ error' = error
           /\ isLoading' = isLoading
           /\ abstractData' # NULL
           /\ "leaseNotes" \in DOMAIN abstractData'
           /\ abstractData'["leaseNotes"]["Other"] = EmptyCollection ]_vars

C6_Witness ==
  /\ \E r \in 1..Len(runs) : Requesting(r) /\ "Other" \in Processed(r)
  /\ abstractData # NULL
  /\ "leaseNotes" \in DOMAIN abstractData
  /\ abstractData["leaseNotes"]["Other"] = EmptyCollection

\* What run r has merged under the key of a unit, in fullAbstractData, in
\* the leaseNotes of it, or in the leaseNotesData of the clause loop
Fragment(r, key) ==
  LET run == runs[r]
  IN IF key \in DOMAIN run.full THEN run.full[key]
     ELSE IF key \in DOMAIN run.notes THEN run.notes[key]
     ELSE IF "leaseNotes" \in DOMAIN run.full /\ key \in DOMAIN run.full["leaseNotes"]
     THEN run.full["leaseNotes"][key]
     ELSE NULL

\* every response so far was the object asked for
AnsweredAsAsked(r) ==
  /\ \A key \in Processed(r) : Fragment(r, key) = [run |-> r, key |-> key]
  /\ (DOMAIN runs[r].full) \ {"leaseNotes"} \subseteq Processed(r)
  /\ DOMAIN runs[r].notes \subseteq Processed(r)

\* the record holds what is under `key` in the object `merged`
Holds(record, merged, key) ==
  /\ record # NULL
  /\ IF key \in DOMAIN record THEN record[key] = merged[key]
     ELSE /\ "leaseNotes" \in DOMAIN record
          /\ key \in DOMAIN record["leaseNotes"]
          /\ record["leaseNotes"][key] = merged[key]

\* C7: when unit k is the first to fail hard (unparsable text, or an empty
\* text that is fatal), the record published at the end of the run holds what
\* units 1..k-1 merged, clauses before a failing clause included, no key of
\* units k..n, and the error names unit k.  (Stated for runs whose responses
\* so far were the objects asked for and whose documents are still selected.)
C7_FailureKeepsMergedFragments ==
  [][ \A r \in 1..Len(runs) : \A text \in EmptyTexts \cup {TextGarbage} :
        ( /\ Handles(r, text)
          /\ runs'[r].pc = "done"
          /\ AnsweredAsAsked(r)
          /\ selectedFiles # << >> )
        => /\ \A key \in DOMAIN runs[r].full \ {"leaseNotes"} :
                Holds(abstractData', runs[r].full, key)
           /\ \A key \in DOMAIN runs[r].notes :
                Holds(abstractData', runs[r].notes, key)
           /\ RecordKeys(abstractData') = Processed(r)
           /\ NamesAwaited(error', r) ]_vars

\* C8: text that is no JSON ends the run with an error naming the unit;
\* nothing of the unit is merged or published, and the unit is not requested
\* again.
C8_UnparsableIsFatal ==
  [][ \A r \in 1..Len(runs) :
        Handles(r, TextGarbage)
        => /\ runs'[r] = DoneRun
           /\ ~isLoading'
           /\ error' = InvalidFormat(IF runs[r].note = 0 THEN "section" ELSE "note",
                                     Awaited(r))
           /\ NamesAwaited(error', r)
           /\ abstractData' = abstractData ]_vars

\* a run ended on an unparsable response to a clause request
C8_Witness ==
  /\ \E n \in 1..Len(NoteKeys) : error = InvalidFormat("note", NoteKeys[n])
  /\ \E r \in 1..Len(runs) : runs[r].pc = "done"
  /\ ~isLoading

\* The step is a hard failure of run r as the claim lists them: acquisition,
\* an empty response to a unit other than the catch-all clause, or
\* unparsable text
HardFailureClaimed(r) ==
  \/ RunTextFailed(r)
  \/ \E text \in EmptyTexts : Handles(r, text) /\ Awaited(r) # "Other"
  \/ Handles(r, TextGarbage)

\* The step is a hard failure of run r as the code has them: acquisition, an
\* empty response to a top-level section, unparsable text, or a rejected
\* request
HardFailure(r) ==
  \/ RunTextFailed(r)
  \/ \E text \in EmptyTexts : Handles(r, text) /\ Awaited(r) \in Range(SectionKeys)
  \/ Handles(r, TextGarbage)
  \/ RunRejected(r)

\* a run requests no unit twice (looked at when the step changes the run),
\* and a run that ended issues nothing more
NoRepeatNoRestart(r) ==
  /\ (runs'[r] # runs[r] /\ runs'[r].pc = "generate") => NoRepeat(runs'[r].reqs)
  /\ runs[r].pc = "done" => runs'[r] = runs[r]

C10_OneRequestInFlight ==
  Cardinality(ExtractionRequests) + Cardinality(QaRequests) <= 1

\* The runs and the turns that have not ended
ActiveRuns == { r \in 1..Len(runs) : runs[r].pc # "done" }
ActiveTurns == { t \in 1..Len(turns) : turns[t].pc # "done" }

\* no handler is suspended at an await
Quiescent == ActiveRuns = {} /\ ActiveTurns = {}

\* The text both handlers assemble from a list of files
AssembledText(files) ==
  Join([ i \in 1..Len(files) |-> extractTextFromPdf(files[i]) ])

\* The step is the failure of turn t
TurnFails(t) == TurnTextFailed(t) \/ TurnRejected(t)

\* C11: no extraction run starts while another is active: isLoading is true
\* exactly while a run is between its start and its finally block, and at most
\* one run is.
C11_NoOverlappingRuns ==
  /\ Cardinality(ActiveRuns) <= 1
  /\ isLoading <=> ActiveRuns # {}

\* a second run is active after a first one ended
C11_Witness ==
  /\ Len(runs) = 2
  /\ runs[1] = DoneRun
  /\ runs[2].pc # "done"
  /\ isLoading

\* C12: the text assembly of an extraction run never overlaps the text
\* assembly of a Q&A turn, so the cache has no two concurrent writers.
C12_OneTextAssembly ==
  ~ \E r \in ActiveRuns, t \in ActiveTurns :
      runs[r].pc = "extract" /\ turns[t].pc = "extract"

\* C13: with no operation in flight, a cache that is not empty holds the
\* assembled text of exactly the documents selected.
C13_CacheIsOfSelection ==
  Quiescent =>
    \/ leaseTextCache = << >>
    \/ leaseTextCache = AssembledText(selectedFiles)

\* C14: while no document is selected, the cache, the published record and
\* the transcript are empty, a run or turn in flight at the removal included.
C14_NoDocumentsNothingDerived ==
  selectedFiles = << >> =>
    /\ leaseTextCache = << >>
    /\ abstractData = NULL
    /\ chatHistory = << >>

\* C15: a question submitted when the text of the selected documents is
\* assembled already (by an earlier question or by an extraction run) acquires
\* no text: its request is issued at once, on the cached text verbatim, and
\* the cache is left alone.
C15_LaterQuestionReusesText ==
  [][ \A value \in QuestionTexts :
        ( /\ handleAskQuestion(value)
          /\ Len(turns') > Len(turns)
          /\ leaseTextCache = AssembledText(selectedFiles) )
        => /\ turns'[Len(turns')].pc = "ask"
           /\ turns'[Len(turns')].prompt = Prompt(leaseTextCache, value)
           /\ leaseTextCache' = leaseTextCache ]_vars

\* the second of two questions, no run ever started, waits for its answer on
\* the text the first one assembled
C15_Witness ==
  /\ runs = << >>
  /\ Len(turns) = 2
  /\ turns[1] = DoneTurn
  /\ turns[2].pc = "ask"
  /\ turns[2].prompt.documents = AssembledText(selectedFiles)
  /\ Len(chatHistory) = 3

\* C16: an extraction run started when the cache holds the text of the
\* selected documents acquires no text.
C16_RunReusesText ==
  [][ ( /\ Len(runs') > Len(runs)
        /\ leaseTextCache = AssembledText(selectedFiles) )
      => runs'[Len(runs')].pc # "extract" ]_vars

\* every user turn of the transcript is followed by the model turn answering it
Answered(history) ==
  \A i \in 1..Len(history) :
    history[i].role = "user"
    => /\ i < Len(history)
       /\ history[i + 1].role = "model"
       /\ history[i + 1].content = [answerTo |-> history[i].content]

\* C17: when no Q&A turn is in flight, every user turn of the transcript is
\* immediately followed by the model turn that answered it, and the question
\* of a turn that failed is not in the transcript.
C17_UserTurnsAnswered ==
  [][ /\ (\A t \in 1..Len(turns') : turns'[t].pc = "done") => Answered(chatHistory')
      /\ \A t \in 1..Len(turns) :
           TurnFails(t)
           => \A i \in 1..Len(chatHistory') :
                chatHistory'[i].role = "user"
                => chatHistory'[i].content # turns[t].question ]_vars

\* a question failed after another one was answered
C17_Witness ==
  /\ qaError = QaFailed
  /\ Len(turns) = 2
  /\ ActiveTurns = {}
  /\ Len(chatHistory) = 2
  /\ chatHistory[1].role = "user"

\* C18: a failed turn leaves the transcript as it was before its question was
\* submitted, whatever the transcript held, and leaves the cache alone.
\* (Stated for a turn whose question still ends the transcript: nothing
\* cleared the transcript while the turn was in flight.)
C18_FailureRestoresTranscript ==
  [][ \A t \in 1..Len(turns) :
        ( /\ TurnFails(t)
          /\ Len(chatHistory) > 0
          /\ chatHistory[Len(chatHistory)].role = "user"
          /\ chatHistory[Len(chatHistory)].content = turns[t].question )
        => /\ chatHistory' = SubSeq(chatHistory, 1, Len(chatHistory) - 1)
           /\ leaseTextCache' = leaseTextCache ]_vars

\* The pages of the document whose iteration of the loop is over
PagesDone == 1..(pdf.i - 1)

C20_WorkerTerminated ==
  pdf.pc \in {"returned", "threw"}
  => /\ pdf.terminated = pdf.created
     /\ ~pdf.worker

\* the function threw after a worker was created, and the worker is terminated
C20_Witness ==
  /\ pdf.pc = "threw"
  /\ pdf.created = 1
  /\ pdf.terminated = 1

\* The pages of the document that need OCR
ImagePages ==
  { k \in 1..Len(pdf.pages) : pdf.pages[k].items < 15 /\ pdf.pages[k].length < 150 }

\* C21: a document creates at most one OCR worker, and not before its first
\* page needing OCR is reached: none for a document without such a page, and
\* the pages read by OCR after the first share the worker.
C21_OneLazyWorker ==
  /\ pdf.created <= 1
  /\ ImagePages = {} => pdf.created = 0
  /\ pdf.created = 1 => \E k \in ImagePages : k <= pdf.i /\ \A j \in ImagePages : k <= j
  /\ \A k \in ImagePages : pdf.ocr[k] = 1 => pdf.created = 1

\* both pages of a document were read by OCR, with one worker
C21_Witness ==
  /\ pdf.pc = "returned"
  /\ Len(pdf.pages) = 2
  /\ pdf.ocr[1] = 1
  /\ pdf.ocr[2] = 1
  /\ pdf.created = 1

\* The length of the assembled text before the first page of the d-th file
RECURSIVE Offset(_, _)
Offset(files, d) ==
  IF d = 1 THEN 0 ELSE Offset(files, d - 1) + 2 * NumPages(files[d - 1]) + 1

\* C22: the text assembled from N documents holds their pages in document
\* order and page order, each page followed by the page break, and N-1
\* document boundaries, one between consecutive documents.
C22_AssembledInOrder ==
  \A r \in 1..Len(runs) :
    runs[r].pc = "generate"
    => LET text == runs[r].leaseText
           files == runs[r].files
           N == Len(files)
       IN /\ Len(text) = Offset(files, N + 1) - 1
          /\ \A d \in 1..N :
               /\ \A k \in 1..NumPages(files[d]) :
                    /\ text[Offset(files, d) + 2 * k - 1] = PageText(files[d], k)
                    /\ text[Offset(files, d) + 2 * k] = PageBreak
               /\ d < N => text[Offset(files, d + 1)] = DocumentBoundary
          /\ Cardinality({ i \in 1..Len(text) : text[i] = DocumentBoundary }) = N - 1

\* a run assembled the text of two documents, of two pages and of one
C22_Witness ==
  \E r \in 1..Len(runs) :
    /\ runs[r].pc = "generate"
    /\ Len(runs[r].files) = 2
    /\ runs[r].files[1].name # runs[r].files[2].name
    /\ Len(runs[r].leaseText) = 7

\* The step ends run r with every unit processed and no error thrown (so the
\* notice is left as it was)
Completes(r) ==
  /\ Requesting(r)
  /\ runs'[r] = DoneRun
  /\ error' = error
  /\ \E text \in AllTexts(r) :
       /\ Response(runs[r], text).error = NULL
       /\ Handles(r, text)

\* C23: a run in which every unit succeeds has issued (S-1)+C requests: one
\* per section other than leaseNotes and one per clause of leaseNotes, in
\* declaration order, the clauses as one block in the place of leaseNotes.
C23_AllUnitsRequested ==
  [][ \A r \in 1..Len(runs) :
        Completes(r)
        => LET S == Len(SectionKeys)
               C == Len(NoteKeys)
               p == CHOOSE s \in 1..S : SectionKeys[s] = "leaseNotes"
           IN /\ Len(runs[r].reqs) = (S - 1) + C
              /\ runs[r].reqs = SubSeq(SectionKeys, 1, p - 1) \o NoteKeys
                                  \o SubSeq(SectionKeys, p + 1, S) ]_vars

\* a run ended with all eight sections published
C23_Witness ==
  /\ Len(runs) = 1
  /\ runs[1] = DoneRun
  /\ ~isLoading
  /\ error = NULL
  /\ abstractData # NULL
  /\ DOMAIN abstractData = Range(SectionKeys)

\* C24: when the text of a document cannot be acquired the run ends at once:
\* no later document is read, no text is assembled, no generation request is
\* issued, the cache is not written, and the error names the document.
C24_AcquisitionFailureAborts ==
  [][ \A r \in 1..Len(runs) :
        RunTextFailed(r)
        => LET run == runs[r]
           IN /\ runs'[r] = DoneRun
              /\ ~isLoading'
              /\ error'.msg = "Failed to process"
              /\ error'.file = run.files[run.i].name
              /\ run.reqs = << >>
              /\ run.leaseText = << >>
              /\ leaseTextCache' = leaseTextCache
              /\ abstractData' = abstractData ]_vars

\* a run ended on its second document, the first one acquired
C24_Witness ==
  /\ Len(runs) = 1
  /\ runs[1] = DoneRun
  /\ Len(selectedFiles) = 2
  /\ inputOrder = << 2, 1 >>
  /\ error = ProcessFailed(selectedFiles[2])
  /\ leaseTextCache = << >>

\* C25: every top-level key of the published record is a section key of the
\* schema, whatever JSON the backend returned.
C25_PublishedKeysAreSectionKeys ==
  abstractData # NULL => DOMAIN abstractData \subseteq Range(SectionKeys)

\* C26: of a batch handed to handleFileChange, every PDF whose name is not
\* selected yet is added, no file of another type is, and the notice is set
\* when the batch holds a file that is no PDF, PDFs accepted or not.
C26_BatchFiltered ==
  [][ \A files \in Batches :
        handleFileChange(files)
        => LET Accepted(file) ==
                 file.type = "application/pdf" /\ ~IsSelected(selectedFiles, file.name)
               accepted == { i \in 1..Len(files) : Accepted(files[i]) }
           IN /\ Len(selectedFiles') = Len(selectedFiles) + Cardinality(accepted)
              /\ \A i \in accepted : files[i] \in Range(selectedFiles')
              /\ \A j \in 1..Len(selectedFiles') :
                   selectedFiles'[j].type = "application/pdf"
              /\ (\E i \in 1..Len(files) : files[i].type # "application/pdf")
                 => error' = NonPdfNotice ]_vars

\* a batch of a PDF and a file of another type: the PDF is selected, the
\* notice is shown
C26_Witness ==
  /\ events = 1
  /\ selectedFiles = << OriginalLease >>
  /\ error = NonPdfNotice

\* C27: the selected documents have pairwise distinct names.
C27_DistinctNames ==
  \A i, j \in 1..Len(selectedFiles) :
    selectedFiles[i].name = selectedFiles[j].name => i = j

\* C28: the request of a turn is made of the cached text and the question
\* alone: when it is issued its prompt holds the cache and the question, and
\* nothing of the transcript.
C28_RequestOfTextAndQuestion ==
  [][ \A t \in 1..Len(turns') :
        ( /\ turns'[t].pc = "ask"
          /\ t <= Len(turns) => turns[t].pc # "ask" )
        => turns'[t].prompt = [documents |-> leaseTextCache',
                               question |-> turns'[t].question] ]_vars

\* the request of a second question is in flight, the first one and its
\* answer in the transcript
C28_Witness ==
  /\ Len(chatHistory) = 3
  /\ chatHistory[1].role = "user"
  /\ chatHistory[1].content = "q1"
  /\ chatHistory[2].role = "model"
  /\ \E t \in 1..Len(turns) :
       /\ turns[t].pc = "ask"
       /\ turns[t].question = "q2"
       /\ turns[t].prompt.documents # << >>

\* C29: while an extraction request is in flight the progress message names
\* the unit requested.
C29_ProgressNamesUnit ==
  \A r \in 1..Len(runs) :
    Requesting(r)
    => /\ "label" \in DOMAIN progressMessage
       /\ progressMessage.label = toTitleCase(Awaited(r))

\* C30: the units are the same for every run: the k-th request of a run is
\* the k-th unit of the static schema, whatever the run, its documents and
\* the runs before it.
C30_SameUnitsEveryRun ==
  \A r \in 1..Len(runs) :
    Requesting(r)
    => /\ Len(runs[r].reqs) <= Len(SchemaUnits)
       /\ \A k \in 1..Len(runs[r].reqs) : runs[r].reqs[k] = SchemaUnits[k]

\* a second run, a first one over, awaits the last unit
C30_Witness ==
  /\ Len(runs) = 2
  /\ runs[1] = DoneRun
  /\ Requesting(2)
  /\ runs[2].reqs = SchemaUnits

\* C31: in the record a run ends with after its last unit, the key of a unit
\* whose response was JSON text is present (and a key is absent only for an
\* empty response that was accepted): here for the last unit of the schema.
C31_ValidJsonKeyPresent ==
  [][ \A r \in 1..Len(runs) :
        ( /\ Requesting(r)
          /\ runs'[r] = DoneRun
          /\ \E text \in AllTexts(r) : text.kind = "json" /\ Handles(r, text) )
        => Awaited(r) \in RecordKeys(abstractData') ]_vars

\* the step has run r request its next unit, or end after the last one
Advances(r) ==
  IF Len(runs[r].reqs) < Len(SchemaUnits)
  THEN /\ runs'[r].pc = "generate"
       /\ runs'[r].reqs = Append(runs[r].reqs, SchemaUnits[Len(runs[r].reqs) + 1])
  ELSE runs'[r] = DoneRun

\* C32: a response whose text is JSON is a success, whatever the value: the
\* run sets no error and requests the next unit, or ends after the last one;
\* so no step of a run that sets an error or does not go on to the next unit
\* (a failure) is the handling of a response whose text is JSON.
C32_ValidJsonIsSuccess ==
  [][ \A r \in 1..Len(runs) :
        ( /\ runs'[r] # runs[r]
          /\ Requesting(r)
          /\ error' # error \/ ~Advances(r) )
        => \A text \in AllTexts(r) : text.kind = "json" => ~Handles(r, text) ]_vars

\* a run awaits its second unit after a number was the response to the first
C32_Witness ==
  /\ abstractData = EmptyObject
  /\ \E r \in 1..Len(runs) :
       /\ Requesting(r)
       /\ Len(runs[r].reqs) = 2
       /\ runs[r].full = EmptyObject

\* C33: at any time at most one document is being read, by the extraction
\* runs and the Q&A turns together.
C33_OneDocumentRead ==
  Cardinality({ r \in 1..Len(runs) : runs[r].pc = "extract" })
    + Cardinality({ t \in 1..Len(turns) : turns[t].pc = "extract" }) <= 1

\* The runs whose responses the fragments of a published record come from
FragmentsOf(object) ==
  { object[k].run : k \in { j \in DOMAIN object : "run" \in DOMAIN object[j] } }
FragmentRuns(record) ==
  FragmentsOf([ k \in (DOMAIN record) \ {"leaseNotes"} |-> record[k] ])
    \cup (IF "leaseNotes" \in DOMAIN record
          THEN FragmentsOf(record["leaseNotes"]) ELSE {})

\* C36: the start of an extraction run sets the published record and the
\* error to null before any acquisition, and a published record holds only
\* fragments of the run started last.
C36_OnlyLatestRun ==
  [][ /\ Len(runs') > Len(runs) =>
           /\ abstractData' = NULL
           /\ error' = NULL
           /\ runs'[Len(runs')].pc = "extract"
           /\ runs'[Len(runs')].texts = << >>
      /\ abstractData' # NULL =>
           FragmentRuns(abstractData') \subseteq {Len(runs')} ]_vars

\* a first run is over and the record published is of the second run
C36_Witness ==
  /\ Len(runs) = 2
  /\ runs[1] = DoneRun
  /\ abstractData # NULL
  /\ FragmentRuns(abstractData) = {2}

\* C37: every model turn of the transcript comes right after the user turn
\* whose question it answers.
C37_ModelTurnsFollowQuestion ==
  \A i \in 1..Len(chatHistory) :
    chatHistory[i].role = "model"
    => /\ i > 1
       /\ chatHistory[i - 1].role = "user"
       /\ chatHistory[i].content = [answerTo |-> chatHistory[i - 1].content]

Ends(r) == runs[r].pc # "done" /\ runs'[r] = DoneRun

\* The step ends run r after its last unit, nothing thrown
Succeeds(r) ==
  /\ Requesting(r)
  /\ runs'[r] = DoneRun
  /\ \E text \in AllTexts(r) :
       /\ Response(runs[r], text).error = NULL
       /\ Handles(r, text)

\* every run started ends (at most one is active at a time, C11)
EveryRunEnds == (ActiveRuns # {}) ~> (ActiveRuns = {})

\* C35 as claimed: every run ends, with isLoading false and no progress
\* message, and the error is non-null at its end exactly when it failed.
C35_EndsErrorIffFailed ==
  /\ EveryRunEnds
  /\ [][ \A r \in 1..Len(runs) :
           Ends(r) =>
             /\ ~isLoading'
             /\ progressMessage' = NoProgress
             /\ (error' # NULL) <=> ~Succeeds(r) ]_vars

\* C35: every run ends, with isLoading false and no progress message; a run
\* that failed ends with the error it threw, and one that did not leaves the
\* error as it is.
C35_EndsLoadingOff ==
  /\ EveryRunEnds
  /\ [][ \A r \in 1..Len(runs) :
           Ends(r) =>
             /\ ~isLoading'
             /\ progressMessage' = NoProgress
             /\ IF Succeeds(r) THEN error' = error
                ELSE error' # NULL /\ error' # error ]_vars

\* a run has ended after its last unit while the notice of a file that is no
\* PDF, dropped during the run, is shown
C35_Witness ==
  /\ Len(runs) = 1
  /\ runs[1] = DoneRun
  /\ ~isLoading
  /\ error = NonPdfNotice
  /\ abstractData # NULL
  /\ Len(SectionKeys) = Cardinality(DOMAIN abstractData)

\* C39: handleGenerateAbstract called with no document selected sets the
\* notice and changes nothing else: isLoading, the published record and the
\* cache stay as they are, and no run, acquisition or request is started.
C39_NoDocumentsOnlyNotice ==
  [][ InvokedWithoutDocuments
      => /\ error' = NoDocumentsNotice
         /\ UNCHANGED << abstractData, isLoading, progressMessage, leaseTextCache,
                         runs, turns, qaVars, fileVars >> ]_vars

\* the notice is shown, nothing loading and no run started
C39_Witness ==
  /\ error = NoDocumentsNotice
  /\ selectedFiles = << >>
  /\ ~isLoading
  /\ runs = << >>

\* C34: when a run fails at a generation unit while the documents selected
\* are those it started with and the cache has not been cleared, the cache
\* holds the text the run assembled.
C34_CacheHoldsRunText ==
  [][ \A r \in 1..Len(runs) :
        ( /\ Requesting(r)
          /\ Ends(r)
          /\ ~Succeeds(r)
          /\ selectedFiles = runs[r].files
          /\ leaseTextCache # << >> )
        => leaseTextCache' = runs[r].leaseText ]_vars

====
